---- MODULE Spec2Model ----
(***************************************************************************)
(* Model of the photo-booth client component App (src/src/App.tsx): the    *)
(* session state held in React state hooks, the start/stop handlers, the   *)
(* setInterval polling loop and the gallery fetch.                          *)
(*                                                                         *)
(* App is a function component, so its body runs again on every render.    *)
(* `let pollInterval` (line 88) is therefore one variable per render, and  *)
(* the handlers created in a render close over that render's variable.     *)
(* The model keeps one record per render scope that something still       *)
(* refers to: the scope the UI is bound to, and every scope with a pending *)
(* handler, a running timer or a request in flight.  The record holds that *)
(* scope's pollInterval and its outstanding calls.  Scopes have no names:  *)
(* two scopes in the same condition are two copies of one record in a bag. *)
(***************************************************************************)
EXTENDS Integers, Sequences, FiniteSets, Bags

\* ---- bounds of the model ----
MaxRequests == 2    \* requests to the backend outstanding at once
MaxLoops    == 2    \* interval timers running at once

\* ---- values ----
Null    == << >>                     \* null of `T | null`
Some(v) == << v >>

StartingStatus  == "Starting capture session..."
StartFailStatus == "Failed to start capture"
StoppingStatus  == "Stopping capture session..."
StoppedStatus   == "Capture session stopped"
StopFailStatus  == "Failed to stop capture"

FetchErrorMsg == "Unable to connect to the photo booth server. Please make sure the backend server is running."
StartErrorMsg == "Unable to start capture. Please make sure the backend server is running."
StopErrorMsg  == "Unable to stop capture. Please make sure the backend server is running."
PollErrorMsg  == "Lost connection to the photo booth server."

\* responses of GET /capture-status (interface CaptureStatus)
CaptureStatus ==
  { [active |-> FALSE, countdown |-> Null,    status |-> "idle",     frame |-> Null],
    [active |-> TRUE,  countdown |-> Some(1), status |-> "counting", frame |-> Some("f1")],
    [active |-> TRUE,  countdown |-> Null,    status |-> "captured", frame |-> Some("f2")] }

\* responses of GET /images (CapturedImage[]), images named by their id
CapturedImages == { << >>, << 2, 1 >> }

\* a request that does not succeed: fetch rejects, or response.ok is false
Failures == { "neterr", "non2xx" }

VARIABLES
  phase,          \* "created" before the mount effect has run, then "mounted",
                  \* "unmounted" once App has been removed
  isCapturing, countdown, capturedImages, status, error, currentFrame,
  renders,        \* bag of render scopes, see Scope
  syncs,          \* fetchImages calls in flight, in order of issue
  last,           \* history: name of the step taken last
  capturedTick,   \* history: "first" / "again" when the snapshot applied last
                  \* was "captured" and the one before was not / was too
  afterStop,      \* history: a stop succeeded and no start has succeeded since
  afterPollFail   \* history: a tick failed and no start has succeeded since

state == << isCapturing, countdown, capturedImages, status, error, currentFrame >>
vars  == << phase, isCapturing, countdown, capturedImages, status, error,
            currentFrame, renders, syncs, last, capturedTick, afterStop,
            afterPollFail >>

\* ---- render scopes ----
\* cur: the UI is bound to this scope's handlers
\* pollInterval: "undefined" before pollCaptureStatus ran in this scope, else
\*   the state of the timer whose handle the variable holds
\* leaked: running timers of this scope whose handle was overwritten
\* starts, stops: startCapture / stopCapture calls of this scope awaiting
\*   their response;  ticks: capture-status requests of this scope's timer
\*   callback awaiting their response
\* stale: how many of these ticks were issued before a request of the same
\*   timer whose snapshot has been applied already; requests are answered in
\*   any order, and the stale ones are the oldest of those in flight
Scope == [cur : BOOLEAN, pollInterval : {"undefined", "running", "cleared"},
          leaked : Nat, starts : Nat, stops : Nat, ticks : Nat, stale : Nat]

FirstRender == [cur |-> TRUE, pollInterval |-> "undefined", leaked |-> 0,
                starts |-> 0, stops |-> 0, ticks |-> 0, stale |-> 0]

Put(B, r)  == B (+) SetToBag({r})
Take(B, r) == B (-) SetToBag({r})
Replace(B, r, r2) == Put(Take(B, r), r2)

\* sum of w[r] over the scopes of B, copies counted
Total(B, w) ==
  LET RECURSIVE Sum(_)
      Sum(S) == IF S = {} THEN 0
                ELSE LET r == CHOOSE x \in S : TRUE
                     IN w[r] * CopiesIn(r, B) + Sum(S \ {r})
  IN Sum(BagToSet(B))

Timers(r)   == (IF r.pollInterval = "running" THEN 1 ELSE 0) + r.leaked
Requests(r) == r.starts + r.stops + r.ticks

\* interval timers running, and requests awaiting their response
RunningLoops == Total(renders, [r \in BagToSet(renders) |-> Timers(r)])
InFlight     == Total(renders, [r \in BagToSet(renders) |-> Requests(r)])
                + Len(syncs)

\* capture-status requests awaiting their response
PollRequests(B) == Total(B, [r \in BagToSet(B) |-> r.ticks])

\* of these, the ones issued before a request already applied
StaleRequests(B) == Total(B, [r \in BagToSet(B) |-> r.stale])

\* the k-th oldest capture-status request of a scope is answered and its
\* snapshot applied: the requests issued before it are stale from now on
Applied(r, k) ==
  [r EXCEPT !.ticks = @ - 1,
            !.stale = IF k <= r.stale THEN @ - 1 ELSE k - 1]

\* the k-th oldest capture-status request of a scope fails
Failed(r, k) ==
  [r EXCEPT !.ticks = @ - 1,
            !.stale = IF k <= r.stale THEN @ - 1 ELSE @]

RemoveAt(q, i) == [ k \in 1 .. (Len(q) - 1) |-> IF k < i THEN q[k] ELSE q[k + 1] ]

\* the scope the UI is bound to
Current(B) == CHOOSE r \in BagToSet(B) : r.cur

\* nothing refers to the scope any more
Dead(r) == /\ ~r.cur
           /\ r.pollInterval # "running"
           /\ Requests(r) = 0
           /\ r.leaked = 0

\* A change of state re-renders App: the UI is bound to the handlers of a
\* new scope, whose pollInterval is unassigned.  B is the bag as the handler
\* left it.
Rerender(B) ==
  LET c  == Current(B)
      B1 == IF state' # state
              THEN Put(Put(Take(B, c), [c EXCEPT !.cur = FALSE]), FirstRender)
              ELSE B
  IN renders' = [ r \in { x \in BagToSet(B1) : ~Dead(x) } |-> B1[r] ]

\* setInterval in a scope: the variable holds the new handle; a timer whose
\* handle it held before keeps running
SetInterval(r) ==
  [r EXCEPT !.pollInterval = "running",
            !.leaked = @ + (IF r.pollInterval = "running" THEN 1 ELSE 0)]

\* clearInterval(pollInterval) in a scope; clearInterval(undefined) and
\* clearing a cleared timer do nothing
ClearInterval(r) ==
  [r EXCEPT !.pollInterval = IF @ = "running" THEN "cleared" ELSE @]

Init ==
  /\ phase = "created"
  /\ isCapturing = FALSE
  /\ countdown = Null
  /\ capturedImages = << >>
  /\ status = ""
  /\ error = Null
  /\ currentFrame = Null
  /\ renders = SetToBag({FirstRender})
  /\ syncs = << >>
  /\ last = "Init"
  /\ capturedTick = "no"
  /\ afterStop = FALSE
  /\ afterPollFail = FALSE

\* useEffect(() => { fetchImages(); }, []) : fetchImages up to its await
Mount ==
  /\ phase = "created"
  /\ InFlight < MaxRequests
  /\ phase' = "mounted"
  /\ error' = Null
  /\ syncs' = Append(syncs, [at |-> capturedImages])
  /\ last' = "Mount"
  /\ UNCHANGED << isCapturing, countdown, capturedImages, status, currentFrame,
                  capturedTick, afterStop, afterPollFail >>
  /\ Rerender(renders)

\* setCapturedImages(data)
SetCapturedImagesMerge(prev, data) == prev \o data
SetCapturedImages(prev, data) == data

\* fetchImages: the response is ok
SyncOk(j, data) ==
  /\ j \in 1 .. Len(syncs)
  /\ capturedImages' = SetCapturedImages(capturedImages, data)
  /\ syncs' = RemoveAt(syncs, j)
  /\ last' = "SyncOk"
  /\ UNCHANGED << phase, isCapturing, countdown, status, error, currentFrame,
                  capturedTick, afterStop, afterPollFail >>
  /\ Rerender(renders)

\* fetchImages: fetch rejects or the response is not ok, the catch block
SyncFailStopsCapture(j) ==
  /\ j \in 1 .. Len(syncs)
  /\ error' = Some(FetchErrorMsg)
  /\ isCapturing' = FALSE
  /\ syncs' = RemoveAt(syncs, j)
  /\ last' = "SyncFail"
  /\ UNCHANGED << phase, countdown, capturedImages, status, currentFrame,
                  capturedTick, afterStop, afterPollFail >>
  /\ Rerender(renders)

SyncFailReset(j) ==
  /\ j \in 1 .. Len(syncs)
  /\ error' = Some(FetchErrorMsg)
  /\ capturedImages' = << >>
  /\ syncs' = RemoveAt(syncs, j)
  /\ last' = "SyncFail"
  /\ UNCHANGED << phase, isCapturing, countdown, status, currentFrame,
                  capturedTick, afterStop, afterPollFail >>
  /\ Rerender(renders)

SyncFail(j) ==
  /\ j \in 1 .. Len(syncs)
  /\ error' = Some(FetchErrorMsg)
  /\ syncs' = RemoveAt(syncs, j)
  /\ last' = "SyncFail"
  /\ UNCHANGED << phase, isCapturing, countdown, capturedImages, status,
                  currentFrame, capturedTick, afterStop, afterPollFail >>
  /\ Rerender(renders)

\* startCapture up to its await (the button shown while isCapturing is false)
StartInvoke ==
  /\ phase = "mounted"
  /\ isCapturing = FALSE
  /\ InFlight < MaxRequests
  /\ error' = Null
  /\ isCapturing' = TRUE
  /\ status' = StartingStatus
  /\ last' = "StartInvoke"
  /\ UNCHANGED << phase, countdown, capturedImages, currentFrame, syncs,
                  capturedTick, afterStop, afterPollFail >>
  /\ LET c == Current(renders)
     IN Rerender(Replace(renders, c, [c EXCEPT !.starts = @ + 1]))

\* startCapture: the response is ok, pollCaptureStatus() calls setInterval
StartOk(r) ==
  /\ r.starts > 0
  /\ RunningLoops < MaxLoops
  /\ last' = "StartOk"
  /\ afterStop' = FALSE
  /\ afterPollFail' = FALSE
  /\ UNCHANGED << phase, isCapturing, countdown, capturedImages, status, error,
                  currentFrame, syncs, capturedTick >>
  /\ Rerender(Replace(renders, r, SetInterval([r EXCEPT !.starts = @ - 1])))

\* startCapture: fetch rejects or the response is not ok, the catch block
StartFailStaysCapturing(r) ==
  /\ r.starts > 0
  /\ status' = StartFailStatus
  /\ error' = Some(StartErrorMsg)
  /\ last' = "StartFail"
  /\ UNCHANGED << phase, isCapturing, countdown, capturedImages, currentFrame,
                  syncs, capturedTick, afterStop, afterPollFail >>
  /\ Rerender(Replace(renders, r, [r EXCEPT !.starts = @ - 1]))

StartFail(r) ==
  /\ r.starts > 0
  /\ status' = StartFailStatus
  /\ error' = Some(StartErrorMsg)
  /\ isCapturing' = FALSE
  /\ last' = "StartFail"
  /\ UNCHANGED << phase, countdown, capturedImages, currentFrame, syncs,
                  capturedTick, afterStop, afterPollFail >>
  /\ Rerender(Replace(renders, r, [r EXCEPT !.starts = @ - 1]))

\* stopCapture up to its await (the button shown while isCapturing is true)
StopInvokeKeepsError ==
  /\ phase = "mounted"
  /\ isCapturing = TRUE
  /\ InFlight < MaxRequests
  /\ status' = StoppingStatus
  /\ last' = "StopInvoke"
  /\ UNCHANGED << phase, isCapturing, countdown, capturedImages, error,
                  currentFrame, syncs, capturedTick, afterStop, afterPollFail >>
  /\ LET c == Current(renders)
     IN Rerender(Replace(renders, c, [c EXCEPT !.stops = @ + 1]))

StopInvoke ==
  /\ phase = "mounted"
  /\ isCapturing = TRUE
  /\ InFlight < MaxRequests
  /\ error' = Null
  /\ status' = StoppingStatus
  /\ last' = "StopInvoke"
  /\ UNCHANGED << phase, isCapturing, countdown, capturedImages, currentFrame,
                  syncs, capturedTick, afterStop, afterPollFail >>
  /\ LET c == Current(renders)
     IN Rerender(Replace(renders, c, [c EXCEPT !.stops = @ + 1]))

\* stopCapture: the response is ok
StopOkRefreshesGallery(r) ==
  /\ r.stops > 0
  /\ isCapturing' = FALSE
  /\ status' = StoppedStatus
  /\ syncs' = Append(syncs, [at |-> capturedImages])
  /\ last' = "StopOk"
  /\ afterStop' = TRUE
  /\ UNCHANGED << phase, countdown, capturedImages, error, currentFrame,
                  capturedTick, afterPollFail >>
  /\ Rerender(Replace(renders, r, ClearInterval([r EXCEPT !.stops = @ - 1])))

StopOk(r) ==
  /\ r.stops > 0
  /\ isCapturing' = FALSE
  /\ status' = StoppedStatus
  /\ last' = "StopOk"
  /\ afterStop' = TRUE
  /\ UNCHANGED << phase, countdown, capturedImages, error, currentFrame, syncs,
                  capturedTick, afterPollFail >>
  /\ Rerender(Replace(renders, r, ClearInterval([r EXCEPT !.stops = @ - 1])))

\* stopCapture: fetch rejects or the response is not ok, the catch block
StopFailStaysCapturing(r) ==
  /\ r.stops > 0
  /\ status' = StopFailStatus
  /\ error' = Some(StopErrorMsg)
  /\ last' = "StopFail"
  /\ UNCHANGED << phase, isCapturing, countdown, capturedImages, currentFrame,
                  syncs, capturedTick, afterStop, afterPollFail >>
  /\ Rerender(Replace(renders, r, [r EXCEPT !.stops = @ - 1]))

StopFail(r) ==
  /\ r.stops > 0
  /\ status' = StopFailStatus
  /\ error' = Some(StopErrorMsg)
  /\ isCapturing' = FALSE
  /\ last' = "StopFail"
  /\ UNCHANGED << phase, countdown, capturedImages, currentFrame, syncs,
                  capturedTick, afterStop, afterPollFail >>
  /\ Rerender(Replace(renders, r, [r EXCEPT !.stops = @ - 1]))

\* the interval of a running timer elapses: the callback issues its fetch,
\* whether or not earlier requests of the loop have been answered
TickFire(r) ==
  /\ Timers(r) > 0
  /\ InFlight < MaxRequests
  /\ last' = "TickFire"
  /\ UNCHANGED << phase, isCapturing, countdown, capturedImages, status, error,
                  currentFrame, syncs, capturedTick, afterStop, afterPollFail >>
  /\ Rerender(Replace(renders, r, [r EXCEPT !.ticks = @ + 1]))

\* setCountdown(data.countdown)
SetCountdownIfPresent(prev, data) ==
  IF data.countdown = Null THEN prev ELSE data.countdown
SetCountdown(prev, data) == data.countdown

\* if (data.status === 'captured'); wasCaptured: the snapshot applied before
\* this one was "captured" too
IsCapturedTransition(wasCaptured, data) ==
  data.status = "captured" /\ ~wasCaptured
IsCaptured(wasCaptured, data) == data.status = "captured"

\* timer callback: the response is ok; the snapshot is applied and a
\* "captured" status runs fetchImages up to its await
TickOkFollowsActive(r, data) ==
  /\ r.ticks > 0
  /\ countdown' = SetCountdown(countdown, data)
  /\ status' = data.status
  /\ currentFrame' = data.frame
  /\ isCapturing' = data.active
  /\ IF IsCaptured(capturedTick # "no", data)
       THEN /\ error' = Null
            /\ syncs' = Append(syncs, [at |-> capturedImages])
       ELSE UNCHANGED << error, syncs >>
  /\ last' = "TickOk"
  /\ capturedTick' = IF data.status # "captured" THEN "no"
                     ELSE IF capturedTick = "no" THEN "first" ELSE "again"
  /\ UNCHANGED << phase, capturedImages, afterStop, afterPollFail >>
  /\ \E k \in 1 .. r.ticks : Rerender(Replace(renders, r, Applied(r, k)))

TickOk(r, data) ==
  /\ r.ticks > 0
  /\ countdown' = SetCountdown(countdown, data)
  /\ status' = data.status
  /\ currentFrame' = data.frame
  /\ IF IsCaptured(capturedTick # "no", data)
       THEN /\ error' = Null
            /\ syncs' = Append(syncs, [at |-> capturedImages])
       ELSE UNCHANGED << error, syncs >>
  /\ last' = "TickOk"
  /\ capturedTick' = IF data.status # "captured" THEN "no"
                     ELSE IF capturedTick = "no" THEN "first" ELSE "again"
  /\ UNCHANGED << phase, isCapturing, capturedImages, afterStop, afterPollFail >>
  /\ \E k \in 1 .. r.ticks : Rerender(Replace(renders, r, Applied(r, k)))

\* timer callback: fetch rejects or the response is not ok, the catch block
TickFail(r) ==
  /\ r.ticks > 0
  /\ error' = Some(PollErrorMsg)
  /\ isCapturing' = FALSE
  /\ last' = "TickFail"
  /\ afterPollFail' = TRUE
  /\ UNCHANGED << phase, countdown, capturedImages, status, currentFrame, syncs,
                  capturedTick, afterStop >>
  /\ \E k \in 1 .. r.ticks :
       Rerender(Replace(renders, r, ClearInterval(Failed(r, k))))

Next ==
  \/ Mount
  \/ \E j \in 1 .. Len(syncs), data \in CapturedImages : SyncOk(j, data)
  \/ \E j \in 1 .. Len(syncs), o \in Failures : SyncFail(j)
  \/ StartInvoke
  \/ \E r \in BagToSet(renders) : StartOk(r)
  \/ \E r \in BagToSet(renders), o \in Failures : StartFail(r)
  \/ StopInvoke
  \/ \E r \in BagToSet(renders) : StopOk(r)
  \/ \E r \in BagToSet(renders), o \in Failures : StopFail(r)
  \/ \E r \in BagToSet(renders) : TickFire(r)
  \/ \E r \in BagToSet(renders), data \in CaptureStatus : TickOk(r, data)
  \/ \E r \in BagToSet(renders), o \in Failures : TickFail(r)

Spec == Init /\ [][Next]_vars

\* App is removed from the page.  The mount effect returns no cleanup, so
\* nothing is cancelled: timers keep running and requests in flight are still
\* answered.  The handlers still call the setters, whose values are no longer
\* rendered; the buttons are gone.
Unmount ==
  /\ phase = "mounted"
  /\ phase' = "unmounted"
  /\ last' = "Unmount"
  /\ UNCHANGED << isCapturing, countdown, capturedImages, status, error,
                  currentFrame, renders, syncs, capturedTick, afterStop,
                  afterPollFail >>

NextUnmount == Next \/ Unmount

SpecUnmount == Init /\ [][NextUnmount]_vars

\* ---- properties ----
\* C1: over any sequence of start() and stop() invocations and any outcomes
\* of the requests, at most one polling loop (interval timer) is running.
C1_ExclusivePolling == RunningLoops <= 1

\* C2: once a stop() request has completed successfully the polling loop is
\* cancelled, and no capture-status request is issued from then on until a
\* start() succeeds.
C2_StopTearsDownPolling ==
  [][ /\ afterStop' => RunningLoops' = 0
      /\ afterStop => PollRequests(renders') <= PollRequests(renders) ]_vars

\* C3: a failed poll tick makes isCapturing false, and from the moment the
\* failure is handled no capture-status request is issued until a start()
\* succeeds.
C3_FailStopOnPollError ==
  [][ /\ (\E r \in BagToSet(renders) : TickFail(r)) => ~isCapturing'
      /\ afterPollFail => PollRequests(renders') <= PollRequests(renders) ]_vars

\* C4: a failed start request leaves isCapturing false, status "Failed to
\* start capture" and an error, starts no timer and issues no capture-status
\* request; a timer is started only by a start request that succeeded.
C4_StartFailureNoPolling ==
  [][ /\ \A r \in BagToSet(renders) :
           StartFail(r) => /\ ~isCapturing'
                           /\ status' = StartFailStatus
                           /\ error' # Null
                           /\ RunningLoops' = RunningLoops
                           /\ PollRequests(renders') = PollRequests(renders)
      /\ RunningLoops' > RunningLoops => \E r \in BagToSet(renders) : StartOk(r)
    ]_vars

C4_Witness ==
  last = "StartFail" /\ ~isCapturing /\ status = StartFailStatus
                     /\ error = Some(StartErrorMsg)

\* C5 as stated: a successful tick invokes fetchImages exactly when its status
\* is "captured" and the tick applied before it was not "captured"; a further
\* consecutive "captured" tick invokes nothing.
C5_SyncOncePerTransition ==
  [][ \A r \in BagToSet(renders), data \in CaptureStatus :
        TickOk(r, data) =>
          Len(syncs') = Len(syncs) +
            (IF data.status = "captured" /\ capturedTick = "no" THEN 1 ELSE 0)
    ]_vars

\* C5 amended: every successful tick whose status is "captured" invokes
\* fetchImages exactly once, a consecutive one included, and a successful
\* tick of any other status invokes none.
C5_SyncPerCapturedTick ==
  [][ \A r \in BagToSet(renders), data \in CaptureStatus :
        TickOk(r, data) =>
          Len(syncs') = Len(syncs) +
            (IF data.status = "captured" THEN 1 ELSE 0)
    ]_vars

C5_Witness == last = "TickOk" /\ capturedTick = "again" /\ Len(syncs) >= 1

\* C6: after a successful tick is applied, countdown, status and currentFrame
\* are those of its snapshot; an absent countdown or frame makes the field
\* absent.
C6_SnapshotReplace ==
  [][ \A r \in BagToSet(renders), data \in CaptureStatus :
        TickOk(r, data) => /\ countdown' = data.countdown
                           /\ status' = data.status
                           /\ currentFrame' = data.frame ]_vars

C6_Witness ==
  last = "TickOk" /\ status = "idle" /\ countdown = Null /\ currentFrame = Null

\* C7: a successful sync leaves capturedImages equal to the collection it
\* returned, in that order, whatever was there and whatever other syncs are
\* in flight; nothing else changes capturedImages.
C7_GalleryFullReplace ==
  [][ /\ \A j \in 1 .. Len(syncs), data \in CapturedImages :
           SyncOk(j, data) => capturedImages' = data
      /\ capturedImages' # capturedImages =>
           \E j \in 1 .. Len(syncs), data \in CapturedImages : SyncOk(j, data)
    ]_vars

C7_Witness ==
  last = "SyncOk" /\ capturedImages = << 2, 1 >> /\ Len(syncs) >= 1

\* C8 as stated: a failed sync sets the "unable to connect" error and leaves
\* capturedImages as it was when that sync was invoked.
C8_SyncFailureKeepsGalleryOfInvocation ==
  [][ \A j \in 1 .. Len(syncs) :
        SyncFail(j) => /\ error' = Some(FetchErrorMsg)
                       /\ capturedImages' = syncs[j].at ]_vars

\* C8 amended: a failed sync sets the "unable to connect" error and does not
\* change capturedImages: it stays as it was when the failure was handled.
C8_SyncFailureKeepsGallery ==
  [][ \A j \in 1 .. Len(syncs) :
        SyncFail(j) => /\ error' = Some(FetchErrorMsg)
                       /\ capturedImages' = capturedImages ]_vars

C8_Witness ==
  last = "SyncFail" /\ error = Some(FetchErrorMsg) /\ capturedImages = << 2, 1 >>

\* C9: every completion of stop(), successful or failed, a second one after
\* a first included, leaves isCapturing false.
C9_StopEndsInactive ==
  [][ \A r \in BagToSet(renders) :
        (StopOk(r) \/ StopFail(r)) => ~isCapturing' ]_vars

C9_Witness == last = "StopFail" /\ afterStop /\ ~isCapturing

\* C10 as stated: once a successful response to start, stop, capture-status
\* or images has been handled, error is absent.
C10_SuccessClearsError ==
  [][ ( \/ \E r \in BagToSet(renders) : StartOk(r) \/ StopOk(r)
        \/ \E r \in BagToSet(renders), data \in CaptureStatus : TickOk(r, data)
        \/ \E j \in 1 .. Len(syncs), data \in CapturedImages : SyncOk(j, data) )
      => error' = Null ]_vars

\* C10 amended: error is cleared when start(), stop() or sync() is invoked,
\* before the request is issued; handling a successful response leaves error
\* as it was, except that a successful tick with status "captured" clears it
\* by invoking sync().
C10_InvocationClearsError ==
  [][ /\ (Mount \/ StartInvoke \/ StopInvoke) => error' = Null
      /\ \A r \in BagToSet(renders), data \in CaptureStatus :
           TickOk(r, data) =>
             error' = IF data.status = "captured" THEN Null ELSE error
      /\ ( \/ \E r \in BagToSet(renders) : StartOk(r) \/ StopOk(r)
           \/ \E j \in 1 .. Len(syncs), data \in CapturedImages : SyncOk(j, data) )
         => error' = error ]_vars

C10_Witness == last = "StartInvoke" /\ afterPollFail /\ error = Null

\* C11: when App unmounts while a polling loop is running the loop is
\* cancelled, and no capture-status request is issued after the unmount.
C11_UnmountEndsPolling ==
  [][ /\ phase' = "unmounted" => RunningLoops' = 0
      /\ phase = "unmounted" => PollRequests(renders') <= PollRequests(renders)
    ]_vars

\* C12: the response to a capture-status request of a timer that has been
\* cancelled since changes none of countdown, status, currentFrame, error
\* and isCapturing and invokes no fetchImages.
C12_CancellationGuard ==
  [][ \A r \in BagToSet(renders) :
        r.pollInterval = "cleared" =>
          ( ( TickFail(r) \/ \E data \in CaptureStatus : TickOk(r, data) )
            => UNCHANGED << countdown, status, currentFrame, error,
                            isCapturing, syncs >> ) ]_vars

\* C13: no snapshot is applied from a capture-status request that was issued
\* before a request of the same loop whose snapshot has been applied already.
C13_NoStaleOverwrite ==
  [][ ( \E r \in BagToSet(renders), data \in CaptureStatus : TickOk(r, data) )
      => StaleRequests(renders') >= StaleRequests(renders) ]_vars

\* C14: at most one capture-status request of a polling loop is outstanding
\* at any time.
C14_SequentialTicks == \A r \in BagToSet(renders) : r.ticks <= 1

\* C15: fetchImages is invoked once by the mount effect and once by every
\* successful tick whose status is "captured", in the step that applies the
\* snapshot; no step of startCapture or stopCapture, no failed tick and no
\* tick of another status invokes it.
C15_SyncInvocationPoints ==
  [][ /\ Mount => Len(syncs') = Len(syncs) + 1
      /\ \A r \in BagToSet(renders), data \in CaptureStatus :
           (TickOk(r, data) /\ data.status = "captured")
             => (Len(syncs') = Len(syncs) + 1 /\ status' = "captured")
      /\ Len(syncs') > Len(syncs) =>
           \/ Mount
           \/ \E r \in BagToSet(renders), data \in CaptureStatus :
                data.status = "captured" /\ TickOk(r, data)
      /\ (StartInvoke \/ StopInvoke) => syncs' = syncs
      /\ \A r \in BagToSet(renders) :
           (StartOk(r) \/ StartFail(r) \/ StopOk(r) \/ StopFail(r) \/ TickFail(r))
             => syncs' = syncs ]_vars

C15_Witness ==
  last = "TickOk" /\ capturedTick = "first" /\ status = "captured"
                  /\ Len(syncs) >= 1

\* C16: isCapturing goes from true to false only when a stopCapture call
\* completes, a tick fails or a start request fails; a successful tick,
\* whatever its status or active flag, and a sync leave isCapturing and the
\* running timers as they are.
C16_OnlyStopOrFailureEnds ==
  [][ /\ (isCapturing /\ ~isCapturing') =>
           \E r \in BagToSet(renders) :
             StopOk(r) \/ StopFail(r) \/ TickFail(r) \/ StartFail(r)
      /\ ( \/ \E r \in BagToSet(renders), data \in CaptureStatus : TickOk(r, data)
           \/ \E j \in 1 .. Len(syncs) :
                SyncFail(j) \/ \E data \in CapturedImages : SyncOk(j, data) )
         => (isCapturing' = isCapturing /\ RunningLoops' = RunningLoops) ]_vars

C16_Witness ==
  last = "TickOk" /\ status = "idle" /\ isCapturing /\ RunningLoops >= 1

\* C17: a sync, successful or not, changes none of isCapturing, countdown,
\* status and currentFrame; capturedImages is changed by a successful sync
\* only, never by a failed sync or by a step of start, stop or a tick.
C17_FieldOwnership ==
  [][ /\ \A j \in 1 .. Len(syncs) :
           (SyncFail(j) \/ \E data \in CapturedImages : SyncOk(j, data))
             => UNCHANGED << isCapturing, countdown, status, currentFrame >>
      /\ ( \/ Mount \/ StartInvoke \/ StopInvoke
           \/ \E j \in 1 .. Len(syncs) : SyncFail(j)
           \/ \E r \in BagToSet(renders) :
                \/ StartOk(r) \/ StartFail(r) \/ StopOk(r) \/ StopFail(r)
                \/ TickFire(r) \/ TickFail(r)
                \/ \E data \in CaptureStatus : TickOk(r, data) )
         => capturedImages' = capturedImages ]_vars

C17_Witness ==
  last = "SyncFail" /\ isCapturing /\ status = "counting"
                    /\ countdown = Some(1) /\ currentFrame = Some("f1")

\* C18: whenever an interval timer is running, isCapturing is true.
C18_PollingImpliesCapturing == RunningLoops > 0 => isCapturing

\* C19: once a failed tick has set the "Lost connection" error, error stays
\* present until startCapture or stopCapture is invoked; no tick and no sync
\* clears it.
C19_PollFailureMessagePersists ==
  [][ (error = Some(PollErrorMsg) /\ error' = Null)
      => (StartInvoke \/ StopInvoke) ]_vars
====
